---- MODULE Spec2Model ----
(***************************************************************************)
(* Adaptive query router of the RAG application                            *)
(* (src/smart_rag_router.py): the LLM classifier with its keyword          *)
(* fallback, the four intent handlers, the bounded chat memory and         *)
(* process_query's dispatch.                                               *)
(*                                                                         *)
(* Conventions.                                                            *)
(*  - A Python str that the code inspects character by character (the      *)
(*    query, the keyword patterns) is a sequence of one-character strings. *)
(*  - An answer or a reasoning text is a sequence of text fragments, so    *)
(*    that f-strings that embed a value are concatenations.                *)
(*  - Scores and confidences are in hundredths: 0.85 is 85, 1.0 is 100.    *)
(*  - A call that may raise returns a record with a field "raised"; the    *)
(*    try/except blocks of the code are the IF raised THEN ... of the      *)
(*    operators.                                                           *)
(***************************************************************************)
EXTENDS Integers, Sequences, FiniteSets, TLC

VARIABLES
  chat_memory,   \* AdaptiveRAGRouter.chat_memory
  rag_app,       \* TRUE iff a document index was passed to the constructor
  tavily_client, \* TRUE iff TAVILY_API_KEY was set at construction
  op,            \* the public operation that ran last
  query,         \* argument of the last process_query / classify_query
  ret,           \* what the last operation returned (or that it raised);
                 \* after classify_query, the LLM response it was given
  classification,\* what classify_query returned in the last operation
  calls,         \* collaborator calls issued by the last operation, in order
  mem_before,    \* chat_memory when the last process_query or clear started
  full,          \* every entry appended since the memory was last empty
  environ,       \* os.environ: which of the credentials are set
  adaptive_router, \* TRUE iff the router exists (api_server's global is set)
  entered_fallback, \* TRUE iff the last process_query ran its except block
  threads,       \* the request threads of the threaded server: where each
                 \* one stands and its local variables
  heap,          \* the chat_memory of every AdaptiveRAGRouter constructed
                 \* by the threaded server, in order of construction
  router_ref,    \* api_server.adaptive_router as seen by the threads: an
                 \* index of heap, 0 for None
  app_ref,       \* api_server.rag_app as seen by the threads: the number
                 \* of the HybridRAGApp it holds, 0 for None
  apps_built     \* how many HybridRAGApp objects were constructed

vars == <<chat_memory, rag_app, tavily_client, op, query, ret,
          classification, calls, mem_before, full, environ, adaptive_router,
          entered_fallback, threads, heap, router_ref, app_ref, apps_built>>

\* the state of the sequential router and server, and that of the threads
routervars == <<chat_memory, rag_app, tavily_client, op, query, ret,
                classification, calls, mem_before, full, environ,
                adaptive_router, entered_fallback>>
threadvars == <<threads, heap, router_ref, app_ref, apps_built>>

----------------------------------------------------------------------------
(* Bounds of the model *)

\* successful general-conversation turns explored between two clears
MaxTurns == 6
\* turns (counted from an empty memory) whose query ranges over all Queries
MaxWideTurns == 1

----------------------------------------------------------------------------
(* Python str operations used by the classifier *)

UpperChars == <<"A","B","C","D","E","F","G","H","I","J","K","L","M",
                "N","O","P","Q","R","S","T","U","V","W","X","Y","Z">>
LowerChars == <<"a","b","c","d","e","f","g","h","i","j","k","l","m",
                "n","o","p","q","r","s","t","u","v","w","x","y","z">>
Whitespace == {" ", "\t", "\n", "\r"}

\* str.lower() on one character
LowerChar(c) ==
  IF \E i \in 1..Len(UpperChars) : UpperChars[i] = c
  THEN LowerChars[CHOOSE i \in 1..Len(UpperChars) : UpperChars[i] = c]
  ELSE c

\* str.lower()
lower(s) == [i \in 1..Len(s) |-> LowerChar(s[i])]

\* str.strip(): drops leading and trailing whitespace
strip(s) ==
  LET keep == {i \in 1..Len(s) : s[i] \notin Whitespace}
  IN  IF keep = {} THEN <<>>
      ELSE LET lo == CHOOSE i \in keep : \A j \in keep : i <= j
               hi == CHOOSE i \in keep : \A j \in keep : j <= i
           IN  SubSeq(s, lo, hi)

\* Python's "pattern in text" on str: contiguous substring
Contains(text, pattern) ==
  \E i \in 0..(Len(text) - Len(pattern)) :
     \A j \in 1..Len(pattern) : text[i + j] = pattern[j]

----------------------------------------------------------------------------
(* Keyword lists of _fallback_classification *)

\* src/smart_rag_router.py:146-163
general_patterns ==
  <<
    <<"h","i">>,
    <<"h","e","l","l","o">>,
    <<"h","e","y">>,
    <<"g","o","o","d"," ","m","o","r","n","i","n","g">>,
    <<"g","o","o","d"," ","a","f","t","e","r","n","o","o","n">>,
    <<"g","o","o","d"," ","e","v","e","n","i","n","g">>,
    <<"h","o","w"," ","a","r","e"," ","y","o","u">>,
    <<"w","h","a","t","'","s"," ","u","p">>,
    <<"w","h","o"," ","a","m"," ","i">>,
    <<"w","h","a","t"," ","a","m"," ","i">>,
    <<"t","e","l","l"," ","m","e"," ","a","b","o","u","t"," ","y","o","u","r","s","e","l","f">>,
    <<"t","h","a","n","k","s">>,
    <<"t","h","a","n","k"," ","y","o","u">>,
    <<"b","y","e">>,
    <<"g","o","o","d","b","y","e">>,
    <<"s","e","e"," ","y","o","u">>
  >>

\* src/smart_rag_router.py:166-179
websearch_patterns ==
  <<
    <<"l","a","t","e","s","t">>,
    <<"r","e","c","e","n","t">>,
    <<"n","e","w","s">>,
    <<"c","u","r","r","e","n","t">>,
    <<"t","o","d","a","y">>,
    <<"y","e","s","t","e","r","d","a","y">>,
    <<"t","h","i","s"," ","w","e","e","k">>,
    <<"s","t","o","c","k"," ","p","r","i","c","e">>,
    <<"w","e","a","t","h","e","r">>,
    <<"c","o","v","i","d">>,
    <<"e","l","e","c","t","i","o","n">>,
    <<"b","r","e","a","k","i","n","g"," ","n","e","w","s">>
  >>

\* src/smart_rag_router.py:182-191
vague_document_patterns ==
  <<
    <<"m","y"," ","d","o","c","u","m","e","n","t","s">>,
    <<"m","y"," ","f","i","l","e","s">>,
    <<"m","y"," ","d","o","c","s">>,
    <<"t","h","e"," ","d","o","c","u","m","e","n","t","s">>,
    <<"t","h","e"," ","f","i","l","e","s">>,
    <<"h","e","l","p"," ","m","e"," ","w","i","t","h">>,
    <<"a","n","s","w","e","r"," ","q","u","e","s","t","i","o","n","s"," ","a","b","o","u","t">>,
    <<"t","e","l","l"," ","m","e"," ","a","b","o","u","t"," ","m","y">>
  >>

\* src/smart_rag_router.py:194-244
document_patterns ==
  <<
    <<"p","d","f">>,
    <<"d","o","c","u","m","e","n","t">>,
    <<"p","a","p","e","r">>,
    <<"r","e","s","e","a","r","c","h">>,
    <<"a","r","t","i","c","l","e">>,
    <<"t","e","x","t">>,
    <<"c","o","n","t","e","n","t">>,
    <<"i","n","f","o","r","m","a","t","i","o","n">>,
    <<"d","a","t","a">>,
    <<"f","i","l","e">>,
    <<"u","p","l","o","a","d">>,
    <<"e","x","p","l","a","i","n">>,
    <<"a","n","a","l","y","z","e">>,
    <<"s","u","m","m","a","r","i","z","e">>,
    <<"w","h","a","t"," ","d","o","e","s">>,
    <<"w","h","a","t"," ","i","s">>,
    <<"h","o","w"," ","d","o","e","s">>,
    <<"d","e","s","c","r","i","b","e">>,
    <<"t","e","l","l"," ","m","e"," ","a","b","o","u","t">>,
    <<"f","i","n","d">>,
    <<"s","e","a","r","c","h">>,
    <<"e","x","t","r","a","c","t">>,
    <<"i","d","e","n","t","i","f","y">>,
    <<"c","o","m","p","a","r","e">>,
    <<"c","o","n","t","r","a","s","t">>,
    <<"d","i","s","c","u","s","s">>,
    <<"e","x","a","m","i","n","e">>,
    <<"r","e","v","i","e","w">>,
    <<"s","t","u","d","y">>,
    <<"i","n","v","e","s","t","i","g","a","t","e">>,
    <<"e","x","p","l","o","r","e">>,
    <<"u","n","d","e","r","s","t","a","n","d">>,
    <<"l","e","a","r","n"," ","a","b","o","u","t">>,
    <<"g","e","t"," ","i","n","f","o","r","m","a","t","i","o","n">>,
    <<"r","e","t","r","i","e","v","e">>,
    <<"o","b","t","a","i","n">>,
    <<"a","c","c","e","s","s">>,
    <<"r","e","a","d">>,
    <<"p","a","r","s","e">>,
    <<"p","r","o","c","e","s","s">>,
    <<"a","r","c","h","i","t","e","c","t","u","r","e">>,
    <<"m","o","d","e","l">>,
    <<"m","e","c","h","a","n","i","s","m">>,
    <<"p","a","r","t">>,
    <<"s","e","c","t","i","o","n">>,
    <<"c","h","a","p","t","e","r">>,
    <<"f","i","g","u","r","e">>,
    <<"t","a","b","l","e">>,
    <<"d","i","a","g","r","a","m">>
  >>

----------------------------------------------------------------------------
(* Values crossing a call boundary *)

\* a call that returned v
Return(v) == [raised |-> FALSE, value |-> v]
\* a call that raised an Exception whose str() is msg
Raise(msg) == [raised |-> TRUE, error |-> msg]

Categories == {"GENERAL", "WEBSEARCH", "VECTORSTORE", "VAGUE_DOCUMENT"}

\* max_memory_length set by the constructor
max_memory_length == 10
\* number of memory entries replayed to the LLM (chat_memory[-4:])
context_window == 4
\* characters of a search result kept in content_preview ([:200])
preview_length == 200

Min(a, b) == IF a < b THEN a ELSE b
Max(a, b) == IF a < b THEN b ELSE a

\* Python's s[-n:] for n > 0
LastN(s, n) == SubSeq(s, Max(1, Len(s) - n + 1), Len(s))
\* Python's s[:n] for n >= 0
FirstN(s, n) == SubSeq(s, 1, Min(n, Len(s)))

----------------------------------------------------------------------------
(* QueryClassification: the pydantic model and its validation *)

\* QueryClassification as a plain record: no Literal, no ge/le constraint
QueryClassification_unvalidated(c, r, conf) ==
  Return([classification |-> c, reasoning |-> r, confidence |-> conf])

\* QueryClassification(classification=c, reasoning=r, confidence=conf):
\* the Literal and the ge/le constraints raise a ValidationError
QueryClassification(c, r, conf) ==
  IF c \notin Categories
    THEN Raise(<<"validation error: classification">>)
  ELSE IF conf < 0 \/ conf > 100
    THEN Raise(<<"validation error: confidence">>)
  ELSE Return([classification |-> c, reasoning |-> r, confidence |-> conf])

\* the scan "for pattern in patterns: if pattern in text": index of the
\* first pattern, from position i on, that occurs in the text; 0 if none
RECURSIVE FirstMatchFrom(_, _, _)
FirstMatchFrom(patterns, text, i) ==
  IF i > Len(patterns) THEN 0
  ELSE IF Contains(text, patterns[i]) THEN i
  ELSE FirstMatchFrom(patterns, text, i + 1)

FirstMatch(patterns, text) == FirstMatchFrom(patterns, text, 1)

\* _fallback_classification with the document keywords scanned first
_fallback_classification_document_first(q) ==
  LET query_lower == strip(lower(q))
      g == FirstMatch(general_patterns, query_lower)
      w == FirstMatch(websearch_patterns, query_lower)
      v == FirstMatch(vague_document_patterns, query_lower)
      d == FirstMatch(document_patterns, query_lower)
  IN  IF d > 0 THEN
        QueryClassification("VECTORSTORE",
          <<"Query contains document-related pattern: '">>
            \o document_patterns[d] \o <<"'">>, 80)
      ELSE IF g > 0 THEN
        QueryClassification("GENERAL",
          <<"Query contains general conversation pattern: '">>
            \o general_patterns[g] \o <<"'">>, 80)
      ELSE IF w > 0 THEN
        QueryClassification("WEBSEARCH",
          <<"Query contains web search pattern: '">>
            \o websearch_patterns[w] \o <<"'">>, 80)
      ELSE IF v > 0 THEN
        QueryClassification("VAGUE_DOCUMENT",
          <<"Query contains vague document reference: '">>
            \o vague_document_patterns[v] \o <<"'">>, 70)
      ELSE
        QueryClassification("GENERAL",
          <<"Query does not match specific patterns, defaulting to general conversation">>,
          50)

\* QueryClassifier._fallback_classification
_fallback_classification(q) ==
  LET query_lower == strip(lower(q))
      g == FirstMatch(general_patterns, query_lower)
      w == FirstMatch(websearch_patterns, query_lower)
      v == FirstMatch(vague_document_patterns, query_lower)
      d == FirstMatch(document_patterns, query_lower)
  IN  IF g > 0 THEN
        QueryClassification("GENERAL",
          <<"Query contains general conversation pattern: '">>
            \o general_patterns[g] \o <<"'">>, 80)
      ELSE IF w > 0 THEN
        QueryClassification("WEBSEARCH",
          <<"Query contains web search pattern: '">>
            \o websearch_patterns[w] \o <<"'">>, 80)
      ELSE IF v > 0 THEN
        QueryClassification("VAGUE_DOCUMENT",
          <<"Query contains vague document reference: '">>
            \o vague_document_patterns[v] \o <<"'">>, 70)
      ELSE IF d > 0 THEN
        QueryClassification("VECTORSTORE",
          <<"Query contains document-related pattern: '">>
            \o document_patterns[d] \o <<"'">>, 80)
      ELSE
        QueryClassification("GENERAL",
          <<"Query does not match specific patterns, defaulting to general conversation">>,
          50)

----------------------------------------------------------------------------
(* Queries explored *)

Q_hello == <<"h","e","l","l","o">>
Q_Hello == <<" ","H","e","l","l","o"," ">>
Q_xyz == <<"x","y","z">>
Q_latest == <<"l","a","t","e","s","t"," ","n","e","w","s">>
Q_mydocs == <<"m","y"," ","d","o","c","u","m","e","n","t","s">>
Q_summarize == <<"s","u","m","m","a","r","i","z","e">>
Q_architecture == <<"a","r","c","h","i","t","e","c","t","u","r","e">>
Q_document == <<"d","o","c","u","m","e","n","t">>
Q_explain == <<"e","x","p","l","a","i","n">>
Q_figure == <<"f","i","g","u","r","e">>
Q_hi_document == <<"h","i",","," ","e","x","p","l","a","i","n"," ","t","h","e"," ","d","o","c","u","m","e","n","t">>
Q_latest_document == <<"l","a","t","e","s","t"," ","d","o","c","u","m","e","n","t">>

Queries == {Q_hello, Q_Hello, Q_xyz, Q_latest, Q_mydocs, Q_summarize,
            Q_architecture, Q_document, Q_explain, Q_figure, Q_hi_document,
            Q_latest_document}
\* the queries sent through process_query: one for each outcome of the
\* keyword fallback
RouterQueries == {Q_hello, Q_xyz, Q_latest, Q_mydocs, Q_summarize}
\* the query of the turns after the first MaxWideTurns
CoreQueries == {Q_hello}

\* _fallback_classification tabulated over the queries explored
FallbackOf == [q \in Queries |-> _fallback_classification(q)]

----------------------------------------------------------------------------
(* QueryClassifier.classify_query *)

\* the try block of classify_query: the LLM call, then the tool call's
\* arguments indexed by name (a missing key raises KeyError)
classify_query_try(q, response) ==
  IF response.raised THEN Raise(response.error)
  ELSE IF Len(response.value.tool_calls) > 0 THEN
    LET args == response.value.tool_calls[1].args
    IN  IF "classification" \notin DOMAIN args
          THEN Raise(<<"'classification'">>)
        ELSE IF "reasoning" \notin DOMAIN args
          THEN Raise(<<"'reasoning'">>)
        ELSE IF "confidence" \notin DOMAIN args
          THEN Raise(<<"'confidence'">>)
        ELSE QueryClassification(args.classification, args.reasoning,
                                 args.confidence)
  ELSE FallbackOf[q]

\* the except clause of classify_query around the outcome t of its try block
classify_query_except(t, q) == IF t.raised THEN FallbackOf[q] ELSE t

\* classify_query without its except clause
classify_query_noexcept(q, response) == classify_query_try(q, response)

\* QueryClassifier.classify_query: response is what the one LLM call did
classify_query(q, response) ==
  classify_query_except(classify_query_try(q, response), q)

----------------------------------------------------------------------------
(* AdaptiveRAGRouter: memory accessors and the four handlers.              *)
(* self is [chat_memory, rag_app, tavily_client]; a handler returns        *)
(* [raised, value | error, self, calls]: its result, the router after it   *)
(* and the collaborator calls it issued.                                   *)

\* one collaborator call: the service, what it was for, its argument,
\* whether it raised and what it returned or raised
Call(svc, purpose, arg, outcome) ==
  [svc |-> svc, purpose |-> purpose, arg |-> arg, raised |-> outcome.raised,
   outcome |-> outcome]

Done(result, self, cs) ==
  [raised |-> FALSE, value |-> result, self |-> self, calls |-> cs]

\* the outcome h of a nested call, with the caller's earlier calls in front
WithCalls(cs, h) == [h EXCEPT !.calls = cs \o h.calls]

\* clear_chat_memory that only logs
clear_chat_memory_noop(self) == self

\* AdaptiveRAGRouter.clear_chat_memory
clear_chat_memory(self) == [self EXCEPT !.chat_memory = <<>>]

\* AdaptiveRAGRouter.get_chat_memory: a copy of the list
get_chat_memory(self) == self.chat_memory

VagueGuidance ==
  <<"I'd be happy to help you with your documents! However, your question is quite general. ",
    "To get the most helpful answer, please try asking more specific questions like: ...",
    "If you haven't uploaded any documents yet, please upload them first using the file upload feature above.">>

\* _handle_vague_document_query whose dict omits "question"
_handle_vague_document_query_short(self, q) ==
  Done([answer |-> VagueGuidance,
        sources |-> <<>>,
        method |-> "vague_document_guidance",
        evaluation_score |-> 80,
        iteration_count |-> 1], self, <<>>)

\* AdaptiveRAGRouter._handle_vague_document_query
_handle_vague_document_query(self, q) ==
  Done([answer |-> VagueGuidance,
        sources |-> <<>>,
        method |-> "vague_document_guidance",
        evaluation_score |-> 80,
        iteration_count |-> 1,
        question |-> q], self, <<>>)

\* HumanMessage / AIMessage built from one memory entry
ToMessage(memory_item) ==
  IF memory_item.role = "user"
  THEN [type |-> "human", content |-> memory_item.content]
  ELSE [type |-> "ai", content |-> memory_item.content]

\* a turn remembered without the truncation
RememberTurn_unbounded(memory, q, content) ==
  Append(Append(memory, [role |-> "user", content |-> q]),
         [role |-> "assistant", content |-> content])

\* a turn remembered with the slice taken from the front ([:max])
RememberTurn_keep_oldest(memory, q, content) ==
  LET appended == Append(Append(memory, [role |-> "user", content |-> q]),
                         [role |-> "assistant", content |-> content])
  IN  IF Len(appended) > max_memory_length
      THEN FirstN(appended, max_memory_length)
      ELSE appended

\* a turn remembered without the assistant's answer
RememberTurn_user_only(memory, q, content) ==
  LET appended == Append(memory, [role |-> "user", content |-> q])
  IN  IF Len(appended) > max_memory_length
      THEN LastN(appended, max_memory_length)
      ELSE appended

\* a turn remembered with the truncation keeping one entry too few
RememberTurn_short_cap(memory, q, content) ==
  LET appended == Append(Append(memory, [role |-> "user", content |-> q]),
                         [role |-> "assistant", content |-> content])
  IN  IF Len(appended) > max_memory_length
      THEN LastN(appended, max_memory_length - 1)
      ELSE appended

\* the append, append, truncate of a successful turn
RememberTurn(memory, q, content) ==
  LET appended == Append(Append(memory, [role |-> "user", content |-> q]),
                         [role |-> "assistant", content |-> content])
  IN  IF Len(appended) > max_memory_length
      THEN LastN(appended, max_memory_length)
      ELSE appended

\* _general_conversation that appends the user entry before the completion
_general_conversation_eager(self, q, llm) ==
  LET recent == LastN(self.chat_memory, context_window)
      messages == [i \in 1..Len(recent) |-> ToMessage(recent[i])]
                    \o <<[type |-> "human", content |-> q]>>
      cs == <<Call("llm.invoke", "chat", messages, llm)>>
  IN  IF llm.raised THEN
        Done([answer |-> <<"I'm here to help! Feel free to ask me questions about your uploaded documents or general topics.">>,
              sources |-> <<>>,
              method |-> "general_conversation_fallback",
              evaluation_score |-> 50,
              iteration_count |-> 1,
              question |-> q],
             [self EXCEPT !.chat_memory =
                 Append(self.chat_memory, [role |-> "user", content |-> q])],
             cs)
      ELSE
        Done([answer |-> llm.value.content,
              sources |-> <<>>,
              method |-> "general_conversation",
              evaluation_score |-> 90,
              iteration_count |-> 1,
              question |-> q],
             [self EXCEPT !.chat_memory =
                 RememberTurn(self.chat_memory, q, llm.value.content)],
             cs)

\* _general_conversation that also remembers the turn it answered with the
\* static fallback
_general_conversation_records_fallback(self, q, llm) ==
  LET recent == LastN(self.chat_memory, context_window)
      messages == [i \in 1..Len(recent) |-> ToMessage(recent[i])]
                    \o <<[type |-> "human", content |-> q]>>
      cs == <<Call("llm.invoke", "chat", messages, llm)>>
  IN  IF llm.raised THEN
        Done([answer |-> <<"I'm here to help! Feel free to ask me questions about your uploaded documents or general topics.">>,
              sources |-> <<>>,
              method |-> "general_conversation_fallback",
              evaluation_score |-> 50,
              iteration_count |-> 1,
              question |-> q],
             [self EXCEPT !.chat_memory =
                 RememberTurn(self.chat_memory, q,
                   <<"I'm here to help! Feel free to ask me questions about your uploaded documents or general topics.">>)],
             cs)
      ELSE
        Done([answer |-> llm.value.content,
              sources |-> <<>>,
              method |-> "general_conversation",
              evaluation_score |-> 90,
              iteration_count |-> 1,
              question |-> q],
             [self EXCEPT !.chat_memory =
                 RememberTurn(self.chat_memory, q, llm.value.content)],
             cs)

\* _general_conversation without its try/except: a completion that raises
\* propagates to the caller
_general_conversation_uncaught(self, q, llm) ==
  LET recent == LastN(self.chat_memory, context_window)
      messages == [i \in 1..Len(recent) |-> ToMessage(recent[i])]
                    \o <<[type |-> "human", content |-> q]>>
      cs == <<Call("llm.invoke", "chat", messages, llm)>>
  IN  IF llm.raised THEN
        [raised |-> TRUE, error |-> llm.error, self |-> self, calls |-> cs]
      ELSE
        Done([answer |-> llm.value.content,
              sources |-> <<>>,
              method |-> "general_conversation",
              evaluation_score |-> 90,
              iteration_count |-> 1,
              question |-> q],
             [self EXCEPT !.chat_memory =
                 RememberTurn(self.chat_memory, q, llm.value.content)],
             cs)

\* _general_conversation that sends the whole memory as context
_general_conversation_whole_memory(self, q, llm) ==
  LET recent == self.chat_memory
      messages == [i \in 1..Len(recent) |-> ToMessage(recent[i])]
                    \o <<[type |-> "human", content |-> q]>>
      cs == <<Call("llm.invoke", "chat", messages, llm)>>
  IN  IF llm.raised THEN
        Done([answer |-> <<"I'm here to help! Feel free to ask me questions about your uploaded documents or general topics.">>,
              sources |-> <<>>,
              method |-> "general_conversation_fallback",
              evaluation_score |-> 50,
              iteration_count |-> 1,
              question |-> q], self, cs)
      ELSE
        Done([answer |-> llm.value.content,
              sources |-> <<>>,
              method |-> "general_conversation",
              evaluation_score |-> 90,
              iteration_count |-> 1,
              question |-> q],
             [self EXCEPT !.chat_memory =
                 RememberTurn(self.chat_memory, q, llm.value.content)],
             cs)

\* _general_conversation that invokes the LLM a second time when the first
\* invocation raises
_general_conversation_retries(self, q, llm) ==
  LET recent == LastN(self.chat_memory, context_window)
      messages == [i \in 1..Len(recent) |-> ToMessage(recent[i])]
                    \o <<[type |-> "human", content |-> q]>>
      cs == IF llm.raised
            THEN <<Call("llm.invoke", "chat", messages, llm),
                   Call("llm.invoke", "chat", messages, llm)>>
            ELSE <<Call("llm.invoke", "chat", messages, llm)>>
  IN  IF llm.raised THEN
        Done([answer |-> <<"I'm here to help! Feel free to ask me questions about your uploaded documents or general topics.">>,
              sources |-> <<>>,
              method |-> "general_conversation_fallback",
              evaluation_score |-> 50,
              iteration_count |-> 1,
              question |-> q], self, cs)
      ELSE
        Done([answer |-> llm.value.content,
              sources |-> <<>>,
              method |-> "general_conversation",
              evaluation_score |-> 90,
              iteration_count |-> 1,
              question |-> q],
             [self EXCEPT !.chat_memory =
                 RememberTurn(self.chat_memory, q, llm.value.content)],
             cs)

\* AdaptiveRAGRouter._general_conversation; llm is what the completion did
_general_conversation(self, q, llm) ==
  LET recent == LastN(self.chat_memory, context_window)
      messages == [i \in 1..Len(recent) |-> ToMessage(recent[i])]
                    \o <<[type |-> "human", content |-> q]>>
      cs == <<Call("llm.invoke", "chat", messages, llm)>>
  IN  IF llm.raised THEN
        Done([answer |-> <<"I'm here to help! Feel free to ask me questions about your uploaded documents or general topics.">>,
              sources |-> <<>>,
              method |-> "general_conversation_fallback",
              evaluation_score |-> 50,
              iteration_count |-> 1,
              question |-> q], self, cs)
      ELSE
        Done([answer |-> llm.value.content,
              sources |-> <<>>,
              method |-> "general_conversation",
              evaluation_score |-> 90,
              iteration_count |-> 1,
              question |-> q],
             [self EXCEPT !.chat_memory =
                 RememberTurn(self.chat_memory, q, llm.value.content)],
             cs)

\* "\n\n".join(parts)
RECURSIVE JoinParts(_)
JoinParts(parts) ==
  IF Len(parts) = 0 THEN <<>>
  ELSE IF Len(parts) = 1 THEN parts[1]
  ELSE parts[1] \o <<"\n", "\n">> \o JoinParts(Tail(parts))

\* the SourceRef _web_search builds from one search result
WebSource(result) ==
  [title |-> result.title,
   url |-> result.url,
   content_preview |-> FirstN(result.content, preview_length) \o <<".", ".", ".">>,
   source_type |-> "web_search"]

\* _web_search without the test of self.tavily_client: the search call on
\* a client that is None raises inside the try block
_web_search_unchecked(self, q, search0, llm) ==
  LET search == IF self.tavily_client THEN search0
                ELSE Raise(<<"'NoneType' object has no attribute 'search'">>)
  IN
    LET c1 == <<Call("tavily.search", "search", q, search)>>
        failed(e, cs) ==
          Done([answer |-> <<"I encountered an error while searching the web: ">>
                             \o e \o <<". Please try rephrasing your question or ask about your uploaded documents instead.">>,
                sources |-> <<>>,
                method |-> "web_search_error",
                evaluation_score |-> 0,
                iteration_count |-> 1,
                question |-> q], self, cs)
    IN  IF search.raised THEN failed(search.error, c1)
        ELSE
          LET results == search.value.results
              sources == [i \in 1..Len(results) |-> WebSource(results[i])]
              context == JoinParts([i \in 1..Len(results) |-> results[i].content])
              c2 == c1 \o <<Call("llm.invoke", "synthesis",
                                 [question |-> q, context |-> context], llm)>>
          IN  IF llm.raised THEN failed(llm.error, c2)
              ELSE
                Done([answer |-> llm.value.content,
                      sources |-> sources,
                      method |-> "web_search",
                      evaluation_score |-> 85,
                      iteration_count |-> 1,
                      question |-> q], self, c2)

\* _web_search whose except clause returns the sources collected so far
_web_search_keeps_sources(self, q, search, llm) ==
  IF ~self.tavily_client THEN
    Done([answer |-> <<"Web search is not available. Please check your Tavily API key configuration.">>,
          sources |-> <<>>,
          method |-> "web_search_unavailable",
          evaluation_score |-> 0,
          iteration_count |-> 1,
          question |-> q], self, <<>>)
  ELSE
    LET c1 == <<Call("tavily.search", "search", q, search)>>
        failed(e, cs, found) ==
          Done([answer |-> <<"I encountered an error while searching the web: ">>
                             \o e \o <<". Please try rephrasing your question or ask about your uploaded documents instead.">>,
                sources |-> found,
                method |-> "web_search_error",
                evaluation_score |-> 0,
                iteration_count |-> 1,
                question |-> q], self, cs)
    IN  IF search.raised THEN failed(search.error, c1, <<>>)
        ELSE
          LET results == search.value.results
              sources == [i \in 1..Len(results) |-> WebSource(results[i])]
              context == JoinParts([i \in 1..Len(results) |-> results[i].content])
              c2 == c1 \o <<Call("llm.invoke", "synthesis",
                                 [question |-> q, context |-> context], llm)>>
          IN  IF llm.raised THEN failed(llm.error, c2, sources)
              ELSE
                Done([answer |-> llm.value.content,
                      sources |-> sources,
                      method |-> "web_search",
                      evaluation_score |-> 85,
                      iteration_count |-> 1,
                      question |-> q], self, c2)

\* AdaptiveRAGRouter._web_search; search and llm are what the two calls did
_web_search(self, q, search, llm) ==
  IF ~self.tavily_client THEN
    Done([answer |-> <<"Web search is not available. Please check your Tavily API key configuration.">>,
          sources |-> <<>>,
          method |-> "web_search_unavailable",
          evaluation_score |-> 0,
          iteration_count |-> 1,
          question |-> q], self, <<>>)
  ELSE
    LET c1 == <<Call("tavily.search", "search", q, search)>>
        failed(e, cs) ==
          Done([answer |-> <<"I encountered an error while searching the web: ">>
                             \o e \o <<". Please try rephrasing your question or ask about your uploaded documents instead.">>,
                sources |-> <<>>,
                method |-> "web_search_error",
                evaluation_score |-> 0,
                iteration_count |-> 1,
                question |-> q], self, cs)
    IN  IF search.raised THEN failed(search.error, c1)
        ELSE
          LET results == search.value.results
              sources == [i \in 1..Len(results) |-> WebSource(results[i])]
              context == JoinParts([i \in 1..Len(results) |-> results[i].content])
              c2 == c1 \o <<Call("llm.invoke", "synthesis",
                                 [question |-> q, context |-> context], llm)>>
          IN  IF llm.raised THEN failed(llm.error, c2)
              ELSE
                Done([answer |-> llm.value.content,
                      sources |-> sources,
                      method |-> "web_search",
                      evaluation_score |-> 85,
                      iteration_count |-> 1,
                      question |-> q], self, c2)

\* the marker _vectorstore_search looks for in str(e)
SparseMarker == <<"Sparse vector must contain at least one value">>

\* _vectorstore_search that returns the index's answer whatever the number
\* of sources
_vectorstore_search_surfaces_empty(self, q, index, llm) ==
  IF ~self.rag_app THEN
    Done([answer |-> <<"Document search is not available. Please check your RAG application configuration.">>,
          sources |-> <<>>,
          method |-> "vectorstore_unavailable",
          evaluation_score |-> 0,
          iteration_count |-> 1,
          question |-> q], self, <<>>)
  ELSE
    LET c1 == <<Call("rag_app.query", "retrieval", [question |-> q, top_k |-> 5], index)>>
    IN  IF index.raised THEN
          IF Contains(index.error, SparseMarker) THEN
            WithCalls(c1, _general_conversation(self, q, llm))
          ELSE
            Done([answer |-> <<"I encountered an error while searching your documents: ">>
                               \o index.error \o <<". Please try rephrasing your question.">>,
                  sources |-> <<>>,
                  method |-> "vectorstore_error",
                  evaluation_score |-> 0,
                  iteration_count |-> 1,
                  question |-> q], self, c1)
        ELSE
          Done([answer |-> index.value.answer,
                sources |-> index.value.sources,
                method |-> "vectorstore_search",
                evaluation_score |-> 80,
                iteration_count |-> 1,
                question |-> q], self, c1)

\* _vectorstore_search whose except clause reports every error alike
_vectorstore_search_no_recovery(self, q, index, llm) ==
  IF ~self.rag_app THEN
    Done([answer |-> <<"Document search is not available. Please check your RAG application configuration.">>,
          sources |-> <<>>,
          method |-> "vectorstore_unavailable",
          evaluation_score |-> 0,
          iteration_count |-> 1,
          question |-> q], self, <<>>)
  ELSE
    LET c1 == <<Call("rag_app.query", "retrieval", [question |-> q, top_k |-> 5], index)>>
    IN  IF index.raised THEN
            Done([answer |-> <<"I encountered an error while searching your documents: ">>
                               \o index.error \o <<". Please try rephrasing your question.">>,
                  sources |-> <<>>,
                  method |-> "vectorstore_error",
                  evaluation_score |-> 0,
                  iteration_count |-> 1,
                  question |-> q], self, c1)
        ELSE IF Len(index.value.sources) = 0 THEN
          Done([answer |-> <<"I don't have enough information in the uploaded documents to answer this question. Please upload relevant documents or try asking a different question.">>,
                sources |-> <<>>,
                method |-> "vectorstore_no_results",
                evaluation_score |-> 30,
                iteration_count |-> 1,
                question |-> q], self, c1)
        ELSE
          Done([answer |-> index.value.answer,
                sources |-> index.value.sources,
                method |-> "vectorstore_search",
                evaluation_score |-> 80,
                iteration_count |-> 1,
                question |-> q], self, c1)

\* AdaptiveRAGRouter._vectorstore_search; index is what rag_app.query did,
\* llm what the completion of the sparse-vector recovery did
_vectorstore_search(self, q, index, llm) ==
  IF ~self.rag_app THEN
    Done([answer |-> <<"Document search is not available. Please check your RAG application configuration.">>,
          sources |-> <<>>,
          method |-> "vectorstore_unavailable",
          evaluation_score |-> 0,
          iteration_count |-> 1,
          question |-> q], self, <<>>)
  ELSE
    LET c1 == <<Call("rag_app.query", "retrieval", [question |-> q, top_k |-> 5], index)>>
    IN  IF index.raised THEN
          IF Contains(index.error, SparseMarker) THEN
            WithCalls(c1, _general_conversation(self, q, llm))
          ELSE
            Done([answer |-> <<"I encountered an error while searching your documents: ">>
                               \o index.error \o <<". Please try rephrasing your question.">>,
                  sources |-> <<>>,
                  method |-> "vectorstore_error",
                  evaluation_score |-> 0,
                  iteration_count |-> 1,
                  question |-> q], self, c1)
        ELSE IF Len(index.value.sources) = 0 THEN
          Done([answer |-> <<"I don't have enough information in the uploaded documents to answer this question. Please upload relevant documents or try asking a different question.">>,
                sources |-> <<>>,
                method |-> "vectorstore_no_results",
                evaluation_score |-> 30,
                iteration_count |-> 1,
                question |-> q], self, c1)
        ELSE
          Done([answer |-> index.value.answer,
                sources |-> index.value.sources,
                method |-> "vectorstore_search",
                evaluation_score |-> 80,
                iteration_count |-> 1,
                question |-> q], self, c1)

----------------------------------------------------------------------------
(* AdaptiveRAGRouter.process_query.  env is what each collaborator does   *)
(* when called: env.cls the classifier's LLM call, env.llm the handler's   *)
(* completion, env.search the Tavily search, env.index rag_app.query.      *)

\* the routing without its VAGUE_DOCUMENT branch
process_query_dispatch_no_vague(c, self, q, env) ==
  IF c.raised THEN
    [raised |-> TRUE, error |-> c.error, self |-> self, calls |-> <<>>]
  ELSE IF c.value.classification = "GENERAL" THEN
    _general_conversation(self, q, env.llm)
  ELSE IF c.value.classification = "WEBSEARCH" THEN
    _web_search(self, q, env.search, env.llm)
  ELSE IF c.value.classification = "VECTORSTORE" THEN
    _vectorstore_search(self, q, env.index, env.llm)
  ELSE
    _general_conversation(self, q, env.llm)

\* the routing of process_query on the classification c it obtained
process_query_dispatch(c, self, q, env) ==
  IF c.raised THEN
    [raised |-> TRUE, error |-> c.error, self |-> self, calls |-> <<>>]
  ELSE IF c.value.classification = "GENERAL" THEN
    _general_conversation(self, q, env.llm)
  ELSE IF c.value.classification = "WEBSEARCH" THEN
    _web_search(self, q, env.search, env.llm)
  ELSE IF c.value.classification = "VAGUE_DOCUMENT" THEN
    _handle_vague_document_query(self, q)
  ELSE IF c.value.classification = "VECTORSTORE" THEN
    _vectorstore_search(self, q, env.index, env.llm)
  ELSE
    _general_conversation(self, q, env.llm)

\* the try block of process_query: classify, then route on the category
process_query_try(self, q, env) ==
  WithCalls(<<Call("llm.invoke", "classify", q, env.cls)>>,
            process_query_dispatch(classify_query(q, env.cls), self, q, env))

\* the inner try/except of the except block, given the outcome f of the
\* best-effort handler: its result, or the static apology if it raised
process_query_last_resort(f, t, q) ==
  IF ~f.raised THEN WithCalls(t.calls, f)
  ELSE Done([answer |-> <<"I'm experiencing technical difficulties. Please try again later or contact support.">>,
             sources |-> <<>>,
             method |-> "error_fallback",
             evaluation_score |-> 0,
             iteration_count |-> 1,
             question |-> q], f.self, t.calls \o f.calls)

\* the except block that always falls back to general conversation
process_query_except_general_only(t, q, env) ==
  process_query_last_resort(_general_conversation(t.self, q, env.llm), t, q)

\* the except blocks of process_query, entered with the outcome t of a try
\* block that raised: the vector store if an index is configured, general
\* conversation otherwise
process_query_except(t, q, env) ==
  process_query_last_resort(
    IF t.self.rag_app
    THEN _vectorstore_search(t.self, q, env.index, env.llm)
    ELSE _general_conversation(t.self, q, env.llm),
    t, q)

\* try/except of process_query around the outcome t of the try block;
\* c is the classification the try block routed on
process_query_guard(t, c, q, env) ==
  IF ~t.raised THEN
    [h |-> t, classification |-> c, entered_fallback |-> FALSE]
  ELSE
    [h |-> process_query_except(t, q, env), classification |-> c,
     entered_fallback |-> TRUE]

\* process_query with the classifier's LLM call made outside any try block
process_query_unguarded(self, q, env) ==
  IF env.cls.raised THEN
    [h |-> [raised |-> TRUE, error |-> env.cls.error, self |-> self,
            calls |-> <<Call("llm.invoke", "classify", q, env.cls)>>],
     classification |-> Raise(env.cls.error),
     entered_fallback |-> FALSE]
  ELSE
    process_query_guard(process_query_try(self, q, env),
                        classify_query(q, env.cls), q, env)

\* AdaptiveRAGRouter.process_query: the outcome h of the call, the
\* classification it routed on and whether the outer except block ran
process_query(self, q, env) ==
  process_query_guard(process_query_try(self, q, env),
                      classify_query(q, env.cls), q, env)

----------------------------------------------------------------------------
(* HybridRAGApp.query, the rag_app the API server hands to the router.    *)
(* retriever is what get_relevant_documents did, chain what llm_chain.run *)
(* did.                                                                    *)

doc_preview_length == 200

\* the source_info built from one retrieved document
DocSource(doc) ==
  [file_name |-> doc.metadata.file_name,
   file_type |-> doc.metadata.file_type,
   chunk_id |-> doc.metadata.chunk_id,
   content_preview |->
     IF Len(doc.page_content) > doc_preview_length
     THEN FirstN(doc.page_content, doc_preview_length) \o <<".", ".", ".">>
     ELSE doc.page_content]

\* the except clause of HybridRAGApp.query: a returned dict with no
\* sources and an "error" key
HybridRAGApp_query_failed(question, e) ==
  Return([answer |-> <<"An error occurred while processing your question: ">> \o e,
          sources |-> <<>>,
          retrieved_docs |-> <<>>,
          question |-> question,
          error |-> e])

\* HybridRAGApp.query
HybridRAGApp_query(question, retriever, chain) ==
  IF retriever.raised THEN HybridRAGApp_query_failed(question, retriever.error)
  ELSE IF Len(retriever.value) = 0 THEN
    Return([answer |-> <<"I don't have enough information to answer this question.">>,
            sources |-> <<>>,
            retrieved_docs |-> <<>>,
            question |-> question])
  ELSE IF chain.raised THEN HybridRAGApp_query_failed(question, chain.error)
  ELSE
    Return([answer |-> chain.value,
            sources |-> [i \in 1..Len(retriever.value) |->
                           DocSource(retriever.value[i])],
            retrieved_docs |-> retriever.value,
            question |-> question,
            context_length |->
              Len(JoinParts([i \in 1..Len(retriever.value) |->
                               retriever.value[i].page_content]))])

----------------------------------------------------------------------------
(* Collaborator outcomes explored *)

\* arguments of the tool call the classification LLM may produce
ToolArgs ==
  {[classification |-> c, reasoning |-> <<"because">>, confidence |-> 90] :
      c \in Categories}
  \cup {[classification |-> "GENERAL", reasoning |-> <<"because">>, confidence |-> n] :
      n \in {0, 100, 0 - 10, 150}}
  \cup {[classification |-> "OTHER", reasoning |-> <<"because">>, confidence |-> 90],
        [classification |-> "GENERAL", reasoning |-> <<"because">>],
        [reasoning |-> <<"because">>, confidence |-> 90]}

\* what the classifier's llm.invoke may do
ClsResponses ==
  {Raise(<<"rate limit exceeded">>), Return([tool_calls |-> <<>>])}
  \cup {Return([tool_calls |-> <<[args |-> a]>>]) : a \in ToolArgs}

\* what a handler's llm.invoke may do
LLMOutcomes ==
  {Return([content |-> <<"Sure.">>]), Raise(<<"llm timeout">>)}

\* what tavily_client.search may do
SearchOutcomes ==
  {Raise(<<"search quota exceeded">>),
   Return([results |-> <<>>]),
   Return([results |-> <<[title |-> "T", url |-> "http://t",
                          content |-> <<"n","e","w","s">>]>>])}

\* what rag_app.query may do
IndexOutcomes ==
  {Raise(<<"400: ">> \o SparseMarker \o <<" (fit the encoder)">>),
   Raise(<<"index unreachable">>),
   Return([answer |-> <<"I don't have enough information to answer this question.">>,
           sources |-> <<>>]),
   Return([answer |-> <<"The document says so.">>,
           sources |-> <<[file_name |-> "a.pdf", file_type |-> ".pdf",
                          chunk_id |-> 0, content_preview |-> <<"s","o">>]>>])}

\* what classify_query may hand to the routing when the routing is entered
\* directly: a classification of each category, one whose category is
\* none of the four, and an exception
DispatchInputs ==
  {Return([classification |-> c, reasoning |-> <<"because">>, confidence |-> 90]) :
      c \in Categories \cup {"OTHER"}}
  \cup {Raise(<<"classification failed">>)}

\* what retriever.get_relevant_documents may do inside HybridRAGApp.query
RetrieverOutcomes ==
  {Raise(<<"pinecone unreachable">>),
   Raise(<<"400: ">> \o SparseMarker \o <<" (fit the encoder)">>),
   Return(<<>>),
   Return(<<[page_content |-> <<"s","o">>,
             metadata |-> [file_name |-> "a.pdf", file_type |-> ".pdf",
                           chunk_id |-> 0]]>>)}

\* what llm_chain.run may do inside HybridRAGApp.query
ChainOutcomes ==
  {Return(<<"The document says so.">>), Raise(<<"openai timeout">>)}

\* rag_app.query for the question q: the duck-typed outcomes above and
\* those of a HybridRAGApp over each retriever and chain outcome
IndexOutcomesFor(q) ==
  IndexOutcomes
  \cup {HybridRAGApp_query(q, r, c) : r \in RetrieverOutcomes, c \in ChainOutcomes}

\* The environments explored for a query whose classification call does
\* cls: a collaborator the routed handler never calls is held at one
\* outcome, since that outcome is never observed.
RoutedTo(c) == IF c.raised THEN "raised" ELSE c.value.classification

EnvsFor(k, cls, q) ==
  [cls : {cls},
   llm : LLMOutcomes,
   search : IF k \in {"WEBSEARCH", "raised"} THEN SearchOutcomes
            ELSE {Return([results |-> <<>>])},
   index : IF k \in {"VECTORSTORE", "raised"} THEN IndexOutcomesFor(q)
           ELSE {Raise(<<"index unreachable">>)}]

Envs(q, cls) == EnvsFor(RoutedTo(classify_query(q, cls)), cls, q)

----------------------------------------------------------------------------
(* api_server: the lazily built globals and the /query endpoint.  g is    *)
(* [rag_app, adaptive_router, router]: whether each global is set and the *)
(* router object; e is os.environ.                                         *)

\* HybridRAGApp.__init__: _setup_pinecone and _setup_llm raise without
\* their keys
HybridRAGApp_init(e) ==
  IF ~e.PINECONE_API_KEY
    THEN Raise(<<"PINECONE_API_KEY not found in environment variables">>)
  ELSE IF ~e.OPENAI_API_KEY
    THEN Raise(<<"OPENAI_API_KEY not found in environment variables">>)
  ELSE Return(TRUE)

\* AdaptiveRAGRouter.__init__
AdaptiveRAGRouter_init(rag, e) ==
  IF ~e.OPENAI_API_KEY
    THEN Raise(<<"OPENAI_API_KEY not found in environment variables">>)
  ELSE Return([chat_memory |-> <<>>, rag_app |-> rag,
               tavily_client |-> e.TAVILY_API_KEY])

\* api_server.get_rag_app
get_rag_app(g, e) ==
  IF g.rag_app THEN [raised |-> FALSE, g |-> g]
  ELSE IF HybridRAGApp_init(e).raised
    THEN [raised |-> TRUE, error |-> HybridRAGApp_init(e).error, g |-> g]
  ELSE [raised |-> FALSE, g |-> [g EXCEPT !.rag_app = TRUE]]

\* the construction in get_adaptive_router, after get_rag_app did a
get_adaptive_router_build(a, e) ==
  IF a.raised THEN a
  ELSE IF AdaptiveRAGRouter_init(a.g.rag_app, e).raised
    THEN [raised |-> TRUE,
          error |-> AdaptiveRAGRouter_init(a.g.rag_app, e).error, g |-> a.g]
  ELSE [raised |-> FALSE,
        g |-> [a.g EXCEPT !.adaptive_router = TRUE,
                          !.router = AdaptiveRAGRouter_init(a.g.rag_app, e).value]]

\* api_server.get_adaptive_router
get_adaptive_router(g, e) ==
  IF g.adaptive_router THEN [raised |-> FALSE, g |-> g]
  ELSE get_adaptive_router_build(get_rag_app(g, e), e)

\* an HTTP response, the globals after it and the process_query run behind it
Response(status, body, g, ran, run) ==
  [status |-> status, body |-> body, g |-> g, ran |-> ran, run |-> run]

\* the endpoint once process_query ran as r: jsonify(result), 200
api_query_answer(r, g) ==
  IF r.h.raised
    THEN Response(500, [error |-> <<"An error occurred: ">> \o r.h.error],
                  [g EXCEPT !.router = r.h.self], TRUE, r)
  ELSE Response(200, r.h.value, [g EXCEPT !.router = r.h.self], TRUE, r)

\* the endpoint from get_adaptive_router on, a being what that call did
api_query_routed(a, question, env) ==
  IF a.raised
    THEN Response(500, [error |-> <<"An error occurred: ">> \o a.error],
                  a.g, FALSE, <<>>)
  ELSE api_query_answer(process_query(a.g.router, question, env), a.g)

\* api_server.query, the POST /query endpoint, on the JSON body data
api_query(data, g, e, env) ==
  IF "question" \notin DOMAIN data
    THEN Response(400, [error |-> <<"No question provided">>], g, FALSE, <<>>)
  ELSE IF strip(data.question) = <<>>
    THEN Response(400, [error |-> <<"Empty question">>], g, FALSE, <<>>)
  ELSE api_query_routed(get_adaptive_router(g, e), strip(data.question), env)

----------------------------------------------------------------------------
(* The threaded server (app.run(threaded=True)): each request runs in a   *)
(* thread of its own, and the threads share the two globals and the       *)
(* router objects.                                                         *)

Threads == {"t1", "t2", "t3"}

\* a thread that has not received its request yet
IdleThread == [pc |-> "idle", kind |-> "none", router |-> 0,
               answer |-> <<>>, tmp |-> <<>>, seen |-> <<>>]

\* no thread has started and nothing was constructed
ThreadsAtRest ==
  /\ threads = [t \in Threads |-> IdleThread]
  /\ heap = <<>>
  /\ router_ref = 0
  /\ app_ref = 0
  /\ apps_built = 0

----------------------------------------------------------------------------
(* The router as a state machine: one action per public operation *)

None == <<>>

Self == [chat_memory |-> chat_memory, rag_app |-> rag_app,
         tavily_client |-> tavily_client]

\* AdaptiveRAGRouter.__init__ with the LLM credential present
Init ==
  /\ chat_memory = <<>>
  /\ rag_app \in BOOLEAN
  /\ tavily_client \in BOOLEAN
  /\ op = "init"
  /\ query = None
  /\ ret = None
  /\ classification = None
  /\ calls = <<>>
  /\ mem_before = <<>>
  /\ full = <<>>
  /\ environ = [OPENAI_API_KEY |-> TRUE, TAVILY_API_KEY |-> tavily_client,
                PINECONE_API_KEY |-> rag_app]
  /\ adaptive_router = TRUE
  /\ entered_fallback = FALSE
  /\ ThreadsAtRest

\* the entries a successful turn is expected to add, read off the result
TurnOf(h) ==
  IF ~h.raised /\ h.value.method = "general_conversation"
  THEN <<[role |-> "user", content |-> h.value.question],
         [role |-> "assistant", content |-> h.value.answer]>>
  ELSE <<>>

\* the state after a process_query(q) whose run was r
ProcessQueryReturns(r, q) ==
  /\ chat_memory' = r.h.self.chat_memory
  /\ op' = "process_query"
  /\ query' = q
  /\ ret' = IF r.h.raised THEN Raise(r.h.error) ELSE Return(r.h.value)
  /\ classification' = r.classification
  /\ calls' = r.h.calls
  /\ mem_before' = chat_memory
  /\ full' = full \o TurnOf(r.h)
  /\ entered_fallback' = r.entered_fallback
  /\ UNCHANGED <<rag_app, tavily_client, environ, adaptive_router, threadvars>>

ProcessQuery ==
  /\ Len(full) < 2 * MaxTurns
  /\ \E q \in (IF Len(full) < 2 * MaxWideTurns THEN RouterQueries
              ELSE CoreQueries),
        cls \in ClsResponses :
       \E env \in Envs(q, cls) :
         ProcessQueryReturns(process_query(Self, q, env), q)

\* the state after the routing of process_query ran on classification c
DispatchReturns(r, q) ==
  /\ chat_memory' = r.h.self.chat_memory
  /\ op' = "dispatch"
  /\ query' = q
  /\ ret' = IF r.h.raised THEN Raise(r.h.error) ELSE Return(r.h.value)
  /\ classification' = r.classification
  /\ calls' = r.h.calls
  /\ mem_before' = chat_memory
  /\ full' = full \o TurnOf(r.h)
  /\ entered_fallback' = r.entered_fallback
  /\ UNCHANGED <<rag_app, tavily_client, environ, adaptive_router, threadvars>>

\* process_query from the point where classify_query has answered with c:
\* the routing on the category, inside the try/except of process_query
Dispatch ==
  /\ Len(full) < 2 * MaxTurns
  /\ \E q \in (IF Len(full) < 2 * MaxWideTurns THEN RouterQueries
               ELSE CoreQueries),
        c \in DispatchInputs :
       \E env \in EnvsFor(RoutedTo(c), Return([tool_calls |-> <<>>]), q) :
         DispatchReturns(
           process_query_guard(process_query_dispatch(c, Self, q, env),
                               c, q, env), q)

ClearChatMemory ==
  /\ chat_memory' = clear_chat_memory(Self).chat_memory
  /\ op' = "clear_chat_memory"
  /\ query' = None
  /\ ret' = None
  /\ classification' = None
  /\ calls' = <<>>
  /\ mem_before' = chat_memory
  /\ full' = <<>>
  /\ entered_fallback' = FALSE
  /\ UNCHANGED <<rag_app, tavily_client, environ, adaptive_router, threadvars>>

GetChatMemory ==
  /\ op' = "get_chat_memory"
  /\ query' = None
  /\ ret' = Return(get_chat_memory(Self))
  /\ classification' = None
  /\ calls' = <<>>
  /\ entered_fallback' = FALSE
  /\ UNCHANGED <<chat_memory, rag_app, tavily_client, mem_before, full,
               environ, adaptive_router, threadvars>>

ClassifyQuery ==
  /\ \E q \in Queries, response \in ClsResponses :
       /\ query' = q
       /\ classification' = classify_query(q, response)
       /\ ret' = response
       /\ calls' = <<Call("llm.invoke", "classify", q, response)>>
  /\ op' = "classify_query"
  /\ entered_fallback' = FALSE
  /\ UNCHANGED <<chat_memory, rag_app, tavily_client, mem_before, full,
               environ, adaptive_router, threadvars>>

\* the server process at start: no global is set
InitServer ==
  /\ chat_memory = <<>>
  /\ rag_app = FALSE
  /\ tavily_client = FALSE
  /\ op = "init"
  /\ query = None
  /\ ret = None
  /\ classification = None
  /\ calls = <<>>
  /\ mem_before = <<>>
  /\ full = <<>>
  /\ environ \in [OPENAI_API_KEY : BOOLEAN, TAVILY_API_KEY : BOOLEAN,
                   PINECONE_API_KEY : BOOLEAN]
  /\ adaptive_router = FALSE
  /\ entered_fallback = FALSE
  /\ ThreadsAtRest

Globals == [rag_app |-> rag_app, adaptive_router |-> adaptive_router,
            router |-> Self]

Q_blank == <<" ", " ">>

\* the JSON bodies posted to /query
RequestBodies ==
  IF Len(full) < 2 * MaxWideTurns
  THEN {[question |-> q] : q \in RouterQueries \cup {Q_blank}}
       \cup {[text |-> Q_hello]}
  ELSE {[question |-> q] : q \in CoreQueries}

\* the environments explored for a request: those of its question
RequestEnvs(data, cls) ==
  IF "question" \in DOMAIN data /\ strip(data.question) \in Queries
  THEN Envs(strip(data.question), cls)
  ELSE EnvsFor("none", cls, <<>>)

\* the state after POST /query answered res to the body data
PostQueryReturns(res, data) ==
  /\ chat_memory' = res.g.router.chat_memory
  /\ rag_app' = res.g.rag_app
  /\ tavily_client' = res.g.router.tavily_client
  /\ adaptive_router' = res.g.adaptive_router
  /\ op' = "POST /query"
  /\ query' = IF "question" \in DOMAIN data THEN strip(data.question) ELSE None
  /\ ret' = Return([status |-> res.status, body |-> res.body])
  /\ classification' = IF res.ran THEN res.run.classification ELSE None
  /\ calls' = IF res.ran THEN res.run.h.calls ELSE <<>>
  /\ mem_before' = chat_memory
  /\ full' = IF res.ran THEN full \o TurnOf(res.run.h) ELSE full
  /\ entered_fallback' = IF res.ran THEN res.run.entered_fallback ELSE FALSE
  /\ UNCHANGED <<environ, threadvars>>

PostQuery ==
  /\ Len(full) < 2 * MaxTurns
  /\ \E data \in RequestBodies, cls \in ClsResponses :
       \E env \in RequestEnvs(data, cls) :
         PostQueryReturns(api_query(data, Globals, environ, env), data)

----------------------------------------------------------------------------
(* The threaded server as a state machine: one action per step at which   *)
(* the interpreter can switch threads.  A thread serves one request:      *)
(* POST /query with a general-conversation question ("turn"), GET         *)
(* /chat/memory ("get") or DELETE /chat/memory ("clear").                  *)

UserEntry(t) == [role |-> "user", content |-> <<"question of ", t>>]
AssistantEntry(t) == [role |-> "assistant", content |-> <<"answer to ", t>>]

\* what the completion of thread t's turn may do
ThreadCompletions(t) ==
  {Return([content |-> <<"answer to ", t>>]), Raise(<<"llm timeout">>)}

\* chat_memory after five turns served one at a time
WarmMemory ==
  [i \in 1..max_memory_length |->
     IF i % 2 = 1
     THEN [role |-> "user", content |-> <<"earlier question">>]
     ELSE [role |-> "assistant", content |-> <<"earlier answer">>]]

\* the server when the threads start: nothing constructed yet, or one app
\* and one router left by requests served one at a time, with an empty or
\* a full memory
InitThreads ==
  /\ chat_memory = <<>>
  /\ rag_app = TRUE
  /\ tavily_client = TRUE
  /\ op = "init"
  /\ query = None
  /\ ret = None
  /\ classification = None
  /\ calls = <<>>
  /\ mem_before = <<>>
  /\ full = <<>>
  /\ environ = [OPENAI_API_KEY |-> TRUE, TAVILY_API_KEY |-> TRUE,
                PINECONE_API_KEY |-> TRUE]
  /\ adaptive_router = FALSE
  /\ entered_fallback = FALSE
  /\ threads = [t \in Threads |-> IdleThread]
  /\ \/ /\ heap = <<>>
        /\ router_ref = 0
        /\ app_ref = 0
        /\ apps_built = 0
     \/ /\ heap \in {<< <<>> >>, <<WarmMemory>>}
        /\ router_ref = 1
        /\ app_ref = 1
        /\ apps_built = 1

\* thread t moves to pc p with the changes of its local variables in rec
Step(t, rec) == threads' = [threads EXCEPT ![t] = rec]

\* the chat_memory of t's router becomes m
SetMemory(t, m) == heap' = [heap EXCEPT ![threads[t].router] = m]

MemoryOf(t) == heap[threads[t].router]

\* a request arrives and is given to thread t
Receive(t) ==
  /\ threads[t].pc = "idle"
  /\ \E k \in {"turn", "get", "clear"} :
       Step(t, [threads[t] EXCEPT !.pc = "check_router", !.kind = k])
  /\ UNCHANGED <<heap, router_ref, app_ref, apps_built, routervars>>

\* get_adaptive_router: if adaptive_router is None
CheckRouter(t) ==
  /\ threads[t].pc = "check_router"
  /\ Step(t, [threads[t] EXCEPT !.pc = IF router_ref = 0 THEN "check_app"
                                       ELSE "return_router"])
  /\ UNCHANGED <<heap, router_ref, app_ref, apps_built, routervars>>

\* get_rag_app: if rag_app is None
CheckApp(t) ==
  /\ threads[t].pc = "check_app"
  /\ Step(t, [threads[t] EXCEPT !.pc = IF app_ref = 0 THEN "build_app"
                                       ELSE "build_router"])
  /\ UNCHANGED <<heap, router_ref, app_ref, apps_built, routervars>>

\* get_rag_app: rag_app = HybridRAGApp()
BuildApp(t) ==
  /\ threads[t].pc = "build_app"
  /\ apps_built' = apps_built + 1
  /\ app_ref' = apps_built + 1
  /\ Step(t, [threads[t] EXCEPT !.pc = "build_router"])
  /\ UNCHANGED <<heap, router_ref, routervars>>

\* get_adaptive_router: adaptive_router = AdaptiveRAGRouter(rag_app)
BuildRouter(t) ==
  /\ threads[t].pc = "build_router"
  /\ heap' = Append(heap, <<>>)
  /\ router_ref' = Len(heap) + 1
  /\ Step(t, [threads[t] EXCEPT !.pc = "return_router"])
  /\ UNCHANGED <<app_ref, apps_built, routervars>>

\* get_adaptive_router: return adaptive_router, and the endpoint's first
\* step on the router it got
ReturnRouter(t) ==
  /\ threads[t].pc = "return_router"
  /\ Step(t, [threads[t] EXCEPT
                !.router = router_ref,
                !.pc = CASE threads[t].kind = "turn" -> "invoke"
                         [] threads[t].kind = "get" -> "get"
                         [] OTHER -> "clear"])
  /\ UNCHANGED <<heap, router_ref, app_ref, apps_built, routervars>>

\* _general_conversation: the messages and self.llm.invoke(messages); a
\* completion that raises ends the turn with the fallback answer
Invoke(t) ==
  /\ threads[t].pc = "invoke"
  /\ \E llm \in ThreadCompletions(t) :
       Step(t, IF llm.raised
               THEN [threads[t] EXCEPT !.pc = "done"]
               ELSE [threads[t] EXCEPT !.pc = "append_user",
                                       !.answer = llm.value.content])
  /\ UNCHANGED <<heap, router_ref, app_ref, apps_built, routervars>>

\* self.chat_memory.append({"role": "user", "content": query})
AppendUser(t) ==
  /\ threads[t].pc = "append_user"
  /\ SetMemory(t, Append(MemoryOf(t), UserEntry(t)))
  /\ Step(t, [threads[t] EXCEPT !.pc = "append_assistant"])
  /\ UNCHANGED <<router_ref, app_ref, apps_built, routervars>>

\* self.chat_memory.append({"role": "assistant", "content": response.content})
AppendAssistant(t) ==
  /\ threads[t].pc = "append_assistant"
  /\ SetMemory(t, Append(MemoryOf(t),
                         [role |-> "assistant", content |-> threads[t].answer]))
  /\ Step(t, [threads[t] EXCEPT !.pc = "check_len"])
  /\ UNCHANGED <<router_ref, app_ref, apps_built, routervars>>

\* if len(self.chat_memory) > self.max_memory_length
CheckLen(t) ==
  /\ threads[t].pc = "check_len"
  /\ Step(t, [threads[t] EXCEPT
                !.pc = IF Len(MemoryOf(t)) > max_memory_length THEN "slice"
                       ELSE "done"])
  /\ UNCHANGED <<heap, router_ref, app_ref, apps_built, routervars>>

\* the right-hand side self.chat_memory[-self.max_memory_length:]
Slice(t) ==
  /\ threads[t].pc = "slice"
  /\ Step(t, [threads[t] EXCEPT !.pc = "store",
                                !.tmp = LastN(MemoryOf(t), max_memory_length)])
  /\ UNCHANGED <<heap, router_ref, app_ref, apps_built, routervars>>

\* the assignment self.chat_memory = ...
Store(t) ==
  /\ threads[t].pc = "store"
  /\ SetMemory(t, threads[t].tmp)
  /\ Step(t, [threads[t] EXCEPT !.pc = "done", !.tmp = <<>>])
  /\ UNCHANGED <<router_ref, app_ref, apps_built, routervars>>

\* clear_chat_memory: self.chat_memory = []
Clear(t) ==
  /\ threads[t].pc = "clear"
  /\ SetMemory(t, <<>>)
  /\ Step(t, [threads[t] EXCEPT !.pc = "done"])
  /\ UNCHANGED <<router_ref, app_ref, apps_built, routervars>>

\* get_chat_memory: return self.chat_memory.copy()
Get(t) ==
  /\ threads[t].pc = "get"
  /\ Step(t, [threads[t] EXCEPT !.pc = "done", !.seen = MemoryOf(t)])
  /\ UNCHANGED <<heap, router_ref, app_ref, apps_built, routervars>>

NextThreads ==
  \E t \in Threads :
    \/ Receive(t)
    \/ CheckRouter(t)
    \/ CheckApp(t)
    \/ BuildApp(t)
    \/ BuildRouter(t)
    \/ ReturnRouter(t)
    \/ Invoke(t)
    \/ AppendUser(t)
    \/ AppendAssistant(t)
    \/ CheckLen(t)
    \/ Slice(t)
    \/ Store(t)
    \/ Clear(t)
    \/ Get(t)

SpecThreads == InitThreads /\ [][NextThreads]_vars

----------------------------------------------------------------------------
(* The specifications of the sequential router and server *)

Next ==
  \/ ProcessQuery
  \/ ClearChatMemory
  \/ GetChatMemory

Spec == Init /\ [][Next]_vars

\* the classifier on its own: every query against every LLM response
NextClassify == ClassifyQuery

SpecClassify == Init /\ [][NextClassify]_vars

\* the API server answering POST /query requests one at a time
NextServer == PostQuery

SpecServer == InitServer /\ [][NextServer]_vars

\* the routing of process_query on its own, on every classification outcome
NextDispatch == Dispatch

SpecDispatch == Init /\ [][NextDispatch]_vars

----------------------------------------------------------------------------
(* Properties *)

ResultFields ==
  {"answer", "sources", "method", "evaluation_score", "iteration_count",
   "question"}

\* the last operation was a process_query that returned a result
Returned == op = "process_query" /\ ~ret.raised

\* some call of the last operation, made for this purpose, raised
CallRaised(purpose) ==
  \E i \in 1..Len(calls) : calls[i].purpose = purpose /\ calls[i].raised

\* C1: process_query never raises: whatever the query and whichever of the
\* LLM, the search client and the index return or raise, the call returns a
\* result record.
C1_NeverRaises ==
  op = "process_query" => ~ret.raised /\ "method" \in DOMAIN ret.value

\* C1 witness: a call in which both the classification call and the
\* handler's completion raised, and a result came back all the same.
C1_Witness ==
  /\ Returned
  /\ CallRaised("classify")
  /\ CallRaised("chat")
  /\ ret.value.method = "general_conversation_fallback"

\* C2: every result of process_query has exactly the six fields, with
\* iteration_count = 1 and question equal to the query passed in.
C2_ResultShape ==
  Returned =>
    /\ DOMAIN ret.value = ResultFields
    /\ ret.value.iteration_count = 1
    /\ ret.value.question = query

\* C2 witness: a failure path (the index raised) and the guidance path.
C2_Witness ==
  /\ Returned
  /\ ret.value.method = "vectorstore_error"
  /\ CallRaised("retrieval")
  /\ ret.value.question = Q_summarize

\* C3: the memory, and what get_chat_memory returns, never holds more than
\* max_memory_length entries.
C3_MemoryBounded ==
  /\ Len(chat_memory) <= max_memory_length
  /\ op = "get_chat_memory" => Len(ret.value) <= max_memory_length

\* C3 witness: get_chat_memory after more than five successful turns.
C3_Witness ==
  /\ op = "get_chat_memory"
  /\ Len(full) > max_memory_length
  /\ Len(ret.value) = max_memory_length

\* C4: eviction is FIFO: the memory is the last min(2N, 10) entries of the
\* sequence user1, assistant1, ..., userN, assistantN of the turns answered
\* since the memory was last empty, in the same order.
C4_FifoEviction ==
  chat_memory = LastN(full, Min(Len(full), max_memory_length))

\* C4 witness: a sixth turn has evicted a first turn that differs from
\* every turn kept.
C4_Witness ==
  /\ Returned
  /\ ret.value.method = "general_conversation"
  /\ Len(full) = max_memory_length + 2
  /\ full[1].content = Q_xyz
  /\ chat_memory[1] = full[3]

\* C5 (as stated): a successful general-conversation answer to "hello"
\* leaves the memory exactly two entries longer than it was.
C5_GrowsByTwo ==
  (/\ Returned
   /\ query = Q_hello
   /\ ret.value.method = "general_conversation")
  => Len(chat_memory) = Len(mem_before) + 2

\* C5 (amended): a successful general-conversation answer to "hello" leaves
\* the memory min(len before + 2, max_memory_length) entries long: two
\* longer, except that a full memory stays at max_memory_length.
C5_GrowsByTwoUpToCap ==
  (/\ Returned
   /\ query = Q_hello
   /\ ret.value.method = "general_conversation")
  => Len(chat_memory) = Min(Len(mem_before) + 2, max_memory_length)

\* C5 witness: "hello" answered successfully on a full memory.
C5_Witness ==
  /\ Returned
  /\ query = Q_hello
  /\ ret.value.method = "general_conversation"
  /\ Len(mem_before) = max_memory_length
  /\ Len(chat_memory) = max_memory_length

\* C6: when the completion of the general-conversation handler raises, the
\* result is general_conversation_fallback with score 0.5 and no sources,
\* and the memory is what it was before the call.
C6_FallbackLeavesMemory ==
  (Returned /\ CallRaised("chat")) =>
    /\ ret.value.method = "general_conversation_fallback"
    /\ ret.value.evaluation_score = 50
    /\ ret.value.sources = <<>>
    /\ chat_memory = mem_before

\* C6 witness: the completion raised while the memory held earlier turns.
C6_Witness ==
  /\ Returned
  /\ CallRaised("chat")
  /\ Len(mem_before) >= 2
  /\ chat_memory = mem_before

\* C7: only a successful general-conversation turn or clear_chat_memory
\* changes the memory; a process_query with any other method leaves it as
\* it was.
C7_MemoryFrame ==
  [][chat_memory' # chat_memory =>
       \/ op' = "clear_chat_memory"
       \/ /\ op' = "process_query"
          /\ ~ret'.raised
          /\ ret'.value.method = "general_conversation"]_vars

\* C7 witness: a web search answered while the memory held earlier turns.
C7_Witness ==
  /\ Returned
  /\ ret.value.method = "web_search"
  /\ Len(chat_memory) >= 2
  /\ chat_memory = mem_before

\* C8: get_chat_memory right after clear_chat_memory returns the empty
\* sequence.
C8_ClearThenGet ==
  [][(op = "clear_chat_memory" /\ op' = "get_chat_memory")
       => ret'.value = <<>>]_vars

\* C8 witness: get_chat_memory returned the empty sequence after a clear
\* that dropped a non-empty memory (mem_before is the memory that clear
\* found; no process_query ran since, or the memory would not be empty).
C8_Witness ==
  /\ op = "get_chat_memory"
  /\ Len(mem_before) >= 2
  /\ chat_memory = <<>>
  /\ ret.value = <<>>

\* the LLM's response to the classification call is unusable: it raised,
\* carries no tool call, or its arguments miss a field, name a category
\* outside the four or carry a confidence outside [0, 1]
Unusable(response) ==
  \/ response.raised
  \/ Len(response.value.tool_calls) = 0
  \/ LET a == response.value.tool_calls[1].args
     IN  \/ ~({"classification", "reasoning", "confidence"} \subseteq DOMAIN a)
         \/ a.classification \notin Categories
         \/ a.confidence < 0
         \/ a.confidence > 100

\* C9: classify_query does not fail outward, and on an unusable LLM
\* response it returns the keyword fallback's classification of the query.
C9_DegradesToFallback ==
  op = "classify_query" =>
    /\ ~classification.raised
    /\ Unusable(ret) => classification = _fallback_classification(query)

\* C9 witness: a tool call with confidence 1.5 naming GENERAL, for a query
\* the keyword fallback sends to the vector store.
C9_Witness ==
  /\ op = "classify_query"
  /\ ~ret.raised
  /\ Len(ret.value.tool_calls) = 1
  /\ "confidence" \in DOMAIN ret.value.tool_calls[1].args
  /\ ret.value.tool_calls[1].args.confidence = 150
  /\ classification.value.classification = "VECTORSTORE"

\* C10: every classification classify_query returns has one of the four
\* categories and a confidence in [0.0, 1.0].
C10_ClassificationInRange ==
  op \in {"classify_query", "process_query"} =>
    /\ ~classification.raised
    /\ classification.value.classification \in Categories
    /\ classification.value.confidence >= 0
    /\ classification.value.confidence <= 100

\* C10 witness: the LLM path at the upper end of the range.
C10_Witness ==
  /\ op = "classify_query"
  /\ ~ret.raised
  /\ Len(ret.value.tool_calls) = 1
  /\ classification.value.confidence = 100
  /\ classification.value.reasoning = <<"because">>


\* whether some pattern of the group occurs in the text
Has(patterns, text) ==
  \E i \in 1..Len(patterns) : Contains(text, patterns[i])

\* classify_query has just answered from the keyword fallback
OnFallbackPath == op = "classify_query" /\ Unusable(ret)

\* the category and confidence of the classification returned
Verdict == <<classification.value.classification,
             classification.value.confidence>>

\* C11: on the fallback path the first of the groups general, web search,
\* vague document, document that has a pattern occurring in the lower-cased
\* trimmed query decides, with confidence 0.8, 0.8, 0.7, 0.8; with no group
\* matching the query is GENERAL with confidence 0.5.
C11_FirstGroupWins ==
  OnFallbackPath =>
    IF Has(general_patterns, strip(lower(query)))
      THEN Verdict = <<"GENERAL", 80>>
    ELSE IF Has(websearch_patterns, strip(lower(query)))
      THEN Verdict = <<"WEBSEARCH", 80>>
    ELSE IF Has(vague_document_patterns, strip(lower(query)))
      THEN Verdict = <<"VAGUE_DOCUMENT", 70>>
    ELSE IF Has(document_patterns, strip(lower(query)))
      THEN Verdict = <<"VECTORSTORE", 80>>
    ELSE Verdict = <<"GENERAL", 50>>

\* C11 witness: "hi, explain the document" holds a general pattern and
\* document keywords and is classified GENERAL by the fallback.
C11_Witness ==
  /\ OnFallbackPath
  /\ query = Q_hi_document
  /\ Has(general_patterns, query)
  /\ Has(document_patterns, query)
  /\ Verdict = <<"GENERAL", 80>>

\* C12: on the fallback path a query that is exactly one of the keywords
\* "document", "summarize", "explain", "architecture", "figure" is
\* classified VECTORSTORE with confidence 0.8.
C12_DocumentKeywordIsVectorstore ==
  (OnFallbackPath /\ query \in {Q_document, Q_summarize, Q_explain,
                                Q_architecture, Q_figure})
    => Verdict = <<"VECTORSTORE", 80>>


\* the method tags each handler can produce
GeneralMethods == {"general_conversation", "general_conversation_fallback"}
WebSearchMethods == {"web_search", "web_search_unavailable", "web_search_error"}
VagueDocumentMethods == {"vague_document_guidance"}
VectorstoreMethods == {"vectorstore_search", "vectorstore_no_results",
                       "vectorstore_unavailable", "vectorstore_error"}

\* the handler's rag_app.query call raised with the sparse-vector marker
SparseRecovery ==
  \E i \in 1..Len(calls) :
    /\ calls[i].purpose = "retrieval"
    /\ calls[i].raised
    /\ Contains(calls[i].outcome.error, SparseMarker)

\* the routing returned a result for a classification it was given
Routed ==
  op \in {"process_query", "dispatch"} /\ ~classification.raised /\ ~ret.raised

\* C13: the result of process_query comes from the handler of the category
\* routed on: GENERAL from general conversation, WEBSEARCH from web search,
\* VAGUE_DOCUMENT from the guidance, VECTORSTORE from the vector store or,
\* through the sparse-vector recovery, from general conversation; a
\* category that is none of the four from general conversation.
C13_DispatchFaithful ==
  (op \in {"process_query", "dispatch"} /\ ~classification.raised) =>
    /\ ~ret.raised
    /\ ret.value.method \in
         CASE classification.value.classification = "GENERAL" -> GeneralMethods
           [] classification.value.classification = "WEBSEARCH" -> WebSearchMethods
           [] classification.value.classification = "VAGUE_DOCUMENT" ->
                VagueDocumentMethods
           [] classification.value.classification = "VECTORSTORE" ->
                IF SparseRecovery THEN GeneralMethods ELSE VectorstoreMethods
           [] OTHER -> GeneralMethods

\* C13 witness: a category outside the four was answered by general
\* conversation, which recorded the turn.
C13_Witness ==
  /\ Routed
  /\ classification.value.classification \notin Categories
  /\ ret.value.method = "general_conversation"
  /\ chat_memory # mem_before

\* the collaborator calls of the last operation made for the given purposes
CallsFor(purposes) == {i \in 1..Len(calls) : calls[i].purpose \in purposes}

\* C14: without a search credential a query routed to web search is
\* answered web_search_unavailable with no sources and score 0.0, and the
\* handler calls neither the search service nor the LLM: the classifier's
\* call is the only one made.
C14_UnavailableWithoutCalls ==
  (Returned /\ ~classification.raised /\ ~tavily_client
     /\ classification.value.classification = "WEBSEARCH") =>
    /\ ret.value.method = "web_search_unavailable"
    /\ ret.value.sources = <<>>
    /\ ret.value.evaluation_score = 0
    /\ CallsFor({"search", "synthesis", "chat", "retrieval"}) = {}
    /\ Len(calls) = 1

\* C14 witness: the LLM classified "latest news" as WEBSEARCH on a router
\* built without the Tavily key.
C14_Witness ==
  /\ Returned
  /\ ~tavily_client
  /\ query = Q_latest
  /\ ~calls[1].raised
  /\ classification.value.classification = "WEBSEARCH"
  /\ ret.value.method = "web_search_unavailable"

\* C15: when the search call or the synthesis call raises, the result is
\* web_search_error with score 0.0 and no sources, and its answer carries
\* the error's message.
C15_SearchFailureShape ==
  \A i \in CallsFor({"search", "synthesis"}) :
    (Returned /\ calls[i].raised) =>
      /\ ret.value.method = "web_search_error"
      /\ ret.value.evaluation_score = 0
      /\ ret.value.sources = <<>>
      /\ Contains(ret.value.answer, calls[i].outcome.error)

\* C15 witness: the search returned a result and the synthesis raised; the
\* source collected from the result is not in the answer's sources.
C15_Witness ==
  /\ Returned
  /\ \E i \in CallsFor({"search"}) :
       ~calls[i].raised /\ Len(calls[i].outcome.value.results) > 0
  /\ \E i \in CallsFor({"synthesis"}) : calls[i].raised
  /\ ret.value.method = "web_search_error"
  /\ ret.value.sources = <<>>

\* C16: with an index configured, a query of the index that returns no
\* sources is answered vectorstore_no_results with no sources and score
\* 0.3, and the answer is not the index's own; with no index configured a
\* query routed to the vector store is answered vectorstore_unavailable
\* with score 0.0 and the handler makes no external call.
C16_NoResultsAndUnavailable ==
  /\ \A i \in CallsFor({"retrieval"}) :
       (Returned /\ ~calls[i].raised
          /\ Len(calls[i].outcome.value.sources) = 0) =>
         /\ rag_app
         /\ ret.value.method = "vectorstore_no_results"
         /\ ret.value.sources = <<>>
         /\ ret.value.evaluation_score = 30
         /\ ret.value.answer # calls[i].outcome.value.answer
  /\ (Returned /\ ~classification.raised /\ ~rag_app
        /\ classification.value.classification = "VECTORSTORE") =>
       /\ ret.value.method = "vectorstore_unavailable"
       /\ ret.value.sources = <<>>
       /\ ret.value.evaluation_score = 0
       /\ Len(calls) = 1
       /\ calls[1].purpose = "classify"

\* C16 witness: the index answered with its own text and no sources.
C16_Witness ==
  /\ Returned
  /\ rag_app
  /\ \E i \in CallsFor({"retrieval"}) :
       /\ ~calls[i].raised
       /\ calls[i].outcome.value.sources = <<>>
       /\ calls[i].outcome.value.answer # <<>>
  /\ ret.value.method = "vectorstore_no_results"

\* the router as it was when the last operation began
SelfBefore == [chat_memory |-> mem_before, rag_app |-> rag_app,
               tavily_client |-> tavily_client]

\* the last operation's result, memory and calls from position i on are
\* those of the handler run g
SameAs(g, i) ==
  /\ ~g.raised
  /\ ret = Return(g.value)
  /\ chat_memory = g.self.chat_memory
  /\ SubSeq(calls, i, Len(calls)) = g.calls

\* C17: when the index raises an error whose text holds the sparse-vector
\* marker, the result and the memory effect are those of the general
\* conversation handler run on the same query and memory; on any other
\* error the result is vectorstore_error with score 0.0 and the memory is
\* unchanged.
C17_SparseRecoveryIsGeneral ==
  \A i \in CallsFor({"retrieval"}) :
    (Returned /\ calls[i].raised) =>
      IF Contains(calls[i].outcome.error, SparseMarker) THEN
        /\ Len(calls) = i + 1
        /\ calls[i + 1].purpose = "chat"
        /\ SameAs(_general_conversation(SelfBefore, query,
                                        calls[i + 1].outcome), i + 1)
      ELSE
        /\ ret.value.method = "vectorstore_error"
        /\ ret.value.evaluation_score = 0
        /\ chat_memory = mem_before
        /\ Len(calls) = i

\* C17 witness: the index raised the sparse-vector error and the turn was
\* answered and remembered as general conversation.
C17_Witness ==
  /\ Returned
  /\ SparseRecovery
  /\ ret.value.method = "general_conversation"
  /\ Len(chat_memory) = Len(mem_before) + 2

\* the index's query failed: it raised, or it is a HybridRAGApp whose
\* retrieval or synthesis raised inside query
IndexFailed(i) ==
  \/ calls[i].raised
  \/ "error" \in DOMAIN calls[i].outcome.value

\* C18: when the index's retrieval or synthesis fails, process_query
\* answers vectorstore_error (or as general conversation, for the
\* sparse-vector error) and never vectorstore_no_results.
C18_FailureIsNotNoResults ==
  \A i \in CallsFor({"retrieval"}) :
    (Returned /\ IndexFailed(i)) =>
      /\ ret.value.method # "vectorstore_no_results"
      /\ ret.value.method \in {"vectorstore_error"} \cup GeneralMethods

\* C19: with OPENAI_API_KEY unset, a question posted to the router's
\* endpoint is answered with a result of the usual shape carrying a method
\* tag, not with an error response.
C19_MissingLLMKeyStillAnswers ==
  (op = "POST /query" /\ ~environ.OPENAI_API_KEY /\ query # None) =>
    /\ ret.value.status = 200
    /\ DOMAIN ret.value.body = ResultFields

\* what the i-th call of the last operation did, or a completion nobody
\* read if there was no such call
OutcomeOf(i) ==
  IF i <= Len(calls) THEN calls[i].outcome ELSE Return([content |-> <<>>])

\* C20: when the classification raises inside process_query, nothing is
\* retried: the vector-store handler runs if an index is configured, the
\* general handler otherwise, and its result is returned as it is;
\* error_fallback is not returned while that handler returns.
C20_FallbackRunsOnce ==
  (op = "dispatch" /\ classification.raised) =>
    /\ ~ret.raised
    /\ ret.value.method # "error_fallback"
    /\ CallsFor({"classify"}) = {}
    /\ Len(calls) >= 1
    /\ calls[1].purpose = (IF rag_app THEN "retrieval" ELSE "chat")
    /\ IF rag_app
       THEN SameAs(_vectorstore_search(SelfBefore, query, OutcomeOf(1),
                                       OutcomeOf(2)), 1)
       ELSE SameAs(_general_conversation(SelfBefore, query, OutcomeOf(1)), 1)

\* C20 witness: the classification raised on a router with an index, and
\* the answer is the index's.
C20_Witness ==
  /\ op = "dispatch"
  /\ classification.raised
  /\ rag_app
  /\ ~ret.raised
  /\ ret.value.method = "vectorstore_search"
  /\ Len(calls) = 1

\* the degraded answers: the method tags a handler returns after a call
\* of its own failed
DegradedMethods == {"general_conversation_fallback", "web_search_error",
                    "vectorstore_error"}

\* C21: within one process_query the classification call, the search call,
\* the index query and the handler's LLM completion are each issued at
\* most once; a failed classification call is followed by the keyword
\* fallback, and a failed handler call is the handler's last call, answered
\* with a degraded result (after the sparse-vector error, with the one
\* completion of general conversation).
C21_NoRetry ==
  op = "process_query" =>
    /\ \A ps \in {{"classify"}, {"search"}, {"retrieval"}, {"chat", "synthesis"}} :
         Cardinality(CallsFor(ps)) <= 1
    /\ \A i \in 1..Len(calls) :
         calls[i].raised =>
           IF calls[i].purpose = "classify"
             THEN i = 1 /\ classification = _fallback_classification(query)
           ELSE IF calls[i].purpose = "retrieval"
                   /\ Contains(calls[i].outcome.error, SparseMarker)
             THEN Len(calls) = i + 1 /\ calls[i + 1].purpose = "chat"
           ELSE i = Len(calls) /\ ret.value.method \in DegradedMethods

\* C21 witness: the classification call failed and then the handler's own
\* call failed; two calls were made in all.
C21_Witness ==
  /\ Returned
  /\ Len(calls) = 2
  /\ calls[1].purpose = "classify" /\ calls[1].raised
  /\ calls[2].purpose = "search" /\ calls[2].raised
  /\ ret.value.method = "web_search_error"

\* no thread is in the middle of a request
Quiescent == \A t \in Threads : threads[t].pc \in {"idle", "done"}

\* thread t's turn was answered and recorded
Completed(t) ==
  /\ threads[t].pc = "done"
  /\ threads[t].kind = "turn"
  /\ threads[t].answer # <<>>

\* the memory is a sequence of user/assistant pairs, each answer next to
\* its own question
Paired(memory) ==
  /\ Len(memory) % 2 = 0
  /\ \A i \in 1..Len(memory) :
       IF i % 2 = 1
       THEN /\ memory[i].role = "user"
            /\ i < Len(memory)
            /\ \A t \in Threads :
                 memory[i] = UserEntry(t) => memory[i + 1] = AssistantEntry(t)
       ELSE memory[i].role = "assistant"

\* the turn of thread t is in the memory, question and answer adjacent
Holds(memory, t) ==
  \E i \in 1..Len(memory) :
    /\ i < Len(memory)
    /\ memory[i] = UserEntry(t)
    /\ memory[i + 1] = AssistantEntry(t)

\* C22: with one router shared by the request threads, get_chat_memory
\* never returns more than max_memory_length entries, and once the
\* requests have ended the memory is made of adjacent user/assistant pairs
\* within the limit and, if nothing cleared it, holds every turn that was
\* recorded.
C22_MemorySerialized ==
  Len(heap) = 1 =>
    /\ \A t \in Threads : Len(threads[t].seen) <= max_memory_length
    /\ Quiescent =>
         /\ Len(heap[1]) <= max_memory_length
         /\ Paired(heap[1])
         /\ (\A t \in Threads : threads[t].kind # "clear") =>
              \A t \in Threads : Completed(t) => Holds(heap[1], t)

\* the role a message sent to the LLM stands for
RoleOf(message) == IF message.type = "human" THEN "user" ELSE "assistant"

\* C23: the messages general conversation sends to the LLM are the last
\* min(4, len(memory)) entries of the memory as it was before the call, in
\* their order and with their roles, followed by the current query as a
\* user message; the query, not yet in the memory, is that last message
\* only.
C23_MessageSequence ==
  \A i \in CallsFor({"chat"}) :
    op = "process_query" =>
      /\ Len(calls[i].arg) = Min(context_window, Len(mem_before)) + 1
      /\ \A k \in 1..(Len(calls[i].arg) - 1) :
           /\ RoleOf(calls[i].arg[k]) =
                mem_before[Len(mem_before) - Len(calls[i].arg) + 1 + k].role
           /\ calls[i].arg[k].content =
                mem_before[Len(mem_before) - Len(calls[i].arg) + 1 + k].content
      /\ calls[i].arg[Len(calls[i].arg)] = [type |-> "human", content |-> query]
      /\ Cardinality({k \in 1..Len(calls[i].arg) :
                        calls[i].arg[k] = [type |-> "human", content |-> query]})
           = 1 + Cardinality({k \in 1..Min(context_window, Len(mem_before)) :
                   mem_before[Len(mem_before) - k + 1] =
                     [role |-> "user", content |-> query]})

\* C23 witness: a completion was requested with six entries in memory, so
\* five messages were sent.
C23_Witness ==
  /\ Returned
  /\ Len(mem_before) = 6
  /\ \E i \in CallsFor({"chat"}) : Len(calls[i].arg) = 5
  /\ ret.value.method = "general_conversation"

\* C24: process_query never runs its top-level except block and never
\* returns method "error_fallback", whatever the LLM, the search client
\* and the index return or raise.
C24_FallbackNeverEntered ==
  op = "process_query" =>
    /\ ~entered_fallback
    /\ ~classification.raised
    /\ ~ret.raised
    /\ ret.value.method # "error_fallback"

\* C24 witness: the classification call and the handler's completion both
\* raised, and the answer still came from the handler.
C24_Witness ==
  /\ Returned
  /\ ~entered_fallback
  /\ Len(calls) = 2
  /\ calls[1].purpose = "classify" /\ calls[1].raised
  /\ calls[2].purpose = "chat" /\ calls[2].raised
  /\ ret.value.method = "general_conversation_fallback"

\* C25: after process_query and clear_chat_memory calls made one at a time
\* the memory has even length and alternates user and assistant entries,
\* a user entry first, so the truncation never splits a pair.
C25_PairsAlternate ==
  /\ Len(chat_memory) % 2 = 0
  /\ \A i \in 1..Len(chat_memory) :
       chat_memory[i].role = (IF i % 2 = 1 THEN "user" ELSE "assistant")

\* C25 witness: a turn was recorded on a full memory, so the truncation
\* dropped the oldest pair.
C25_Witness ==
  /\ Returned
  /\ ret.value.method = "general_conversation"
  /\ Len(mem_before) = max_memory_length
  /\ Len(chat_memory) = max_memory_length
  /\ Len(full) > max_memory_length
  /\ chat_memory[1].role = "user"

\* C26: the lazily built globals are singletons even when the first
\* requests arrive together: at most one HybridRAGApp and one
\* AdaptiveRAGRouter are ever constructed, so a turn one request recorded
\* is in the memory of the router that later requests are given.
C26_SingletonRouter ==
  /\ apps_built <= 1
  /\ Len(heap) <= 1
  /\ (Quiescent /\ router_ref # 0
        /\ \A t \in Threads : threads[t].kind # "clear") =>
       \A t \in Threads : Completed(t) =>
         \E i \in 1..Len(heap[router_ref]) : heap[router_ref][i] = UserEntry(t)

====
